---------------------------- MODULE Spec2Model ----------------------------
(***************************************************************************)
(* A model of the HTTP/1.0 and HTTP/1.1 client of src/src/http.rs: the      *)
(* case-insensitive header map (Headers), the two request serializers      *)
(* (Request::send_v10, Request::send_v11), the response parser             *)
(* (Response::parse) and the orchestration of Client::send.                *)
(*                                                                         *)
(* Bytes are integers 0..255 and byte strings are sequences of them, so    *)
(* that lower-casing, the BTreeMap's key order, decimal and hexadecimal    *)
(* formatting and parsing are computed as the code computes them.          *)
(***************************************************************************)
EXTENDS Integers, Sequences, FiniteSets, TLC

VARIABLES
    http_version,     \* Client.http_version
    headers,          \* Client.headers
    log,              \* history of the calls made through Client::headers_mut
    sends,            \* number of Client::send calls made so far
    last,             \* what the last Client::send call was given, wrote and returned
    req,              \* a Request value (method, path, headers, body)
    sent,             \* which serializer consumed req: "none", "v10" or "v11"
    request_bytes,    \* the bytes the serializer wrote
    resp,             \* how the response buffer was put together
    response_bytes,   \* the buffer handed to Response::parse
    pc,               \* "input" before Response::parse ran, "parsed" after
    result            \* what Response::parse produced

vars == <<http_version, headers, log, sends, last, req, sent, request_bytes,
          resp, response_bytes, pc, result>>

(***************************************************************************)
(* Bounds of the model.                                                    *)
(***************************************************************************)
\* longest history of header-map calls that is recorded
MaxOps == 3
\* longest body (or raw response tail) enumerated byte by byte
MaxBodyLen == 3
\* most Client::send calls in one behaviour
MaxSends == 2

(***************************************************************************)
(* Bytes and text.                                                         *)
(***************************************************************************)
LF == 10
CR == 13
SP == 32

\* the printable ASCII characters in code order, " " being 32 (code 96, which
\* no text of the model uses, is spelled out)
Chars == <<
    " ", "!", "\"", "#", "$", "%", "&", "'", "(", ")", "*", "+", ",", "-", ".", "/",
    "0", "1", "2", "3", "4", "5", "6", "7", "8", "9", ":", ";", "<", "=", ">", "?",
    "@", "A", "B", "C", "D", "E", "F", "G", "H", "I", "J", "K", "L", "M", "N", "O",
    "P", "Q", "R", "S", "T", "U", "V", "W", "X", "Y", "Z", "[", "\\", "]", "^", "_",
    "(backtick)", "a", "b", "c", "d", "e", "f", "g", "h", "i", "j", "k", "l", "m", "n", "o",
    "p", "q", "r", "s", "t", "u", "v", "w", "x", "y", "z", "{", "|", "}", "~" >>

\* the code of each character
Code == [c \in {Chars[i] : i \in 1..Len(Chars)} |->
           31 + (CHOOSE i \in 1..Len(Chars) : Chars[i] = c)]

\* the bytes of a text given character by character
Str(t) == [i \in 1..Len(t) |-> Code[t[i]]]

CRLF == <<CR, LF>>

None == <<>>
Some(v) == <<v>>

\* s[from..to) with 0-based offsets, as a Rust slice; the caller checks the range
Slice(s, from, to) == SubSeq(s, from + 1, to)

RECURSIVE Concat(_)
Concat(ss) == IF ss = <<>> THEN <<>> ELSE Head(ss) \o Concat(Tail(ss))

\* n times the byte b
Rep(b, n) == [i \in 1..n |-> b]

Min(S) == CHOOSE x \in S : \A y \in S : x <= y

\* str::to_lowercase on ASCII text
to_lowercase(s) == [i \in 1..Len(s) |-> IF s[i] \in 65..90 THEN s[i] + 32 ELSE s[i]]

\* the order of String keys in a BTreeMap: lexicographic by byte
RECURSIVE LexLess(_, _)
LexLess(a, b) ==
    IF b = <<>> THEN FALSE
    ELSE IF a = <<>> THEN TRUE
    ELSE IF Head(a) # Head(b) THEN Head(a) < Head(b)
    ELSE LexLess(Tail(a), Tail(b))

\* Display of an unsigned integer
RECURSIVE ToDecimal(_)
ToDecimal(n) ==
    IF n < 10 THEN <<48 + n>> ELSE ToDecimal(n \div 10) \o <<48 + (n % 10)>>

HexDigit(d) == IF d < 10 THEN 48 + d ELSE 87 + d

\* LowerHex ("{:x}") of an unsigned integer
RECURSIVE ToLowerHex(_)
ToLowerHex(n) ==
    IF n < 16 THEN <<HexDigit(n)>> ELSE ToLowerHex(n \div 16) \o <<HexDigit(n % 16)>>

(***************************************************************************)
(* Headers: a BTreeMap from lower-cased name to value.                     *)
(***************************************************************************)
EmptyHeaders == [k \in {} |-> <<>>]

\* a plausible slip: the key is stored as given
HeadersInsertAsGiven(h, key, val) ==
    [k \in DOMAIN h \cup {key} |-> IF k = key THEN val ELSE h[k]]

HeadersInsert(h, key, val) ==
    LET lk == to_lowercase(key)
    IN  [k \in DOMAIN h \cup {lk} |-> IF k = lk THEN val ELSE h[k]]

HeadersGet(h, key) ==
    LET lk == to_lowercase(key)
    IN  IF lk \in DOMAIN h THEN Some(h[lk]) ELSE None

HeadersContains(h, key) == to_lowercase(key) \in DOMAIN h

HeadersRemove(h, key) ==
    LET lk == to_lowercase(key)
    IN  [k \in DOMAIN h \ {lk} |-> h[k]]

\* a plausible slip: entries come out in descending key order
RECURSIVE IterDescending(_, _)
IterDescending(h, keys) ==
    IF keys = {} THEN <<>>
    ELSE LET k == CHOOSE x \in keys : \A y \in keys \ {x} : LexLess(y, x)
         IN  <<<<k, h[k]>>>> \o IterDescending(h, keys \ {k})

HeadersIterDescending(h) == IterDescending(h, DOMAIN h)

RECURSIVE IterAscending(_, _)
IterAscending(h, keys) ==
    IF keys = {} THEN <<>>
    ELSE LET k == CHOOSE x \in keys : \A y \in keys \ {x} : LexLess(x, y)
         IN  <<<<k, h[k]>>>> \o IterAscending(h, keys \ {k})

\* the (key, value) pairs in the map's order
HeadersIter(h) == IterAscending(h, DOMAIN h)

(***************************************************************************)
(* Request: the two serializers.                                           *)
(***************************************************************************)
\* Option<Vec<u8>>::unwrap_or_default
unwrap_or_default(opt) == IF opt = None THEN <<>> ELSE opt[1]

\* writeln!(writer, "{key}: {value}\r") for every entry, in the map's order
WriteHeaders(h) ==
    LET it == HeadersIter(h)
    IN  Concat([i \in 1..Len(it) |-> it[i][1] \o Str(<<":", " ">>) \o it[i][2] \o <<CR, LF>>])

\* a plausible slip: the caller's Content-Length is kept, none is computed
send_v10_keep_headers(r) ==
    LET body == unwrap_or_default(r.body)
    IN  r.method \o <<SP>> \o r.path \o Str(<<" ", "H", "T", "T", "P", "/", "1", ".", "0">>) \o <<CR, LF>>
          \o WriteHeaders(r.headers) \o CRLF \o body

send_v10(r) ==
    LET body == unwrap_or_default(r.body)
        h    == HeadersInsert(r.headers, Str(<<"C", "o", "n", "t", "e", "n", "t", "-", "L", "e", "n", "g", "t", "h">>), ToDecimal(Len(body)))
    IN  r.method \o <<SP>> \o r.path \o Str(<<" ", "H", "T", "T", "P", "/", "1", ".", "0">>) \o <<CR, LF>>
          \o WriteHeaders(h)
          \o CRLF
          \o (IF body # <<>> THEN body ELSE <<>>)

\* the chunked framing of a body: one chunk when it is not empty, then the
\* zero-length chunk
write_chunked(body) ==
    (IF body # <<>> THEN ToLowerHex(Len(body)) \o CRLF \o body \o CRLF ELSE <<>>)
      \o Str(<<"0">>) \o CRLF \o CRLF

\* a plausible slip: the chunk is written whether or not the body is empty
send_v11_always_chunk(r) ==
    LET body == unwrap_or_default(r.body)
        h    == HeadersInsert(r.headers, Str(<<"T", "r", "a", "n", "s", "f", "e", "r", "-", "E", "n", "c", "o", "d", "i", "n", "g">>), Str(<<"c", "h", "u", "n", "k", "e", "d">>))
    IN  r.method \o <<SP>> \o r.path \o Str(<<" ", "H", "T", "T", "P", "/", "1", ".", "1">>) \o <<CR, LF>>
          \o WriteHeaders(h) \o CRLF
          \o ToLowerHex(Len(body)) \o CRLF \o body \o CRLF
          \o Str(<<"0">>) \o CRLF \o CRLF

send_v11(r) ==
    LET body == unwrap_or_default(r.body)
        h    == HeadersInsert(r.headers, Str(<<"T", "r", "a", "n", "s", "f", "e", "r", "-", "E", "n", "c", "o", "d", "i", "n", "g">>), Str(<<"c", "h", "u", "n", "k", "e", "d">>))
    IN  r.method \o <<SP>> \o r.path \o Str(<<" ", "H", "T", "T", "P", "/", "1", ".", "1">>) \o <<CR, LF>>
          \o WriteHeaders(h)
          \o CRLF
          \o write_chunked(body)

(***************************************************************************)
(* Response::parse.  A call ends in one of three ways: it returns a        *)
(* Response ("ok"), it returns an error ("err"), or it panics ("panic":    *)
(* an index or slice out of range, or a failed assert_eq!).                *)
(***************************************************************************)
\* offset of the first b in s, or Len(s) when there is none
Find(s, b) ==
    LET at == {i \in 1..Len(s) : s[i] = b}
    IN  IF at = {} THEN Len(s) ELSE Min(at) - 1

\* slice::split: the pieces of s between the bytes equal to b
RECURSIVE Split(_, _)
Split(s, b) ==
    LET i == Find(s, b)
    IN  IF i = Len(s) THEN <<s>>
        ELSE <<Slice(s, 0, i)>> \o Split(Slice(s, i + 1, Len(s)), b)

\* str::splitn(n, ' ')
RECURSIVE SplitN(_, _)
SplitN(s, n) ==
    LET i == Find(s, SP)
    IN  IF n <= 1 \/ i = Len(s) THEN <<s>>
        ELSE <<Slice(s, 0, i)>> \o SplitN(Slice(s, i + 1, Len(s)), n - 1)

\* str::split_once(": "): None, or Some of the text before and after the first ": "
SplitOnce(s) ==
    LET at == {i \in 1..(Len(s) - 1) : s[i] = 58 /\ s[i + 1] = SP}
    IN  IF at = {} THEN None
        ELSE Some(<<Slice(s, 0, Min(at) - 1), Slice(s, Min(at) + 1, Len(s))>>)

\* String::from_utf8 succeeds; the buffers of the model hold ASCII and the
\* byte 255 only, so a byte over 127 is never part of a valid sequence
IsUtf8(s) == \A i \in 1..Len(s) : s[i] < 128

\* the value of a digit in the radix, or -1
DigitValue(b, radix) ==
    LET v == IF b \in 48..57 THEN b - 48
             ELSE IF b \in 97..122 THEN b - 87
             ELSE IF b \in 65..90 THEN b - 55
             ELSE -1
    IN  IF v >= 0 /\ v < radix THEN v ELSE -1

\* the number the digits write; only called on texts of a few digits
RECURSIVE DigitsValue(_, _)
DigitsValue(s, radix) ==
    IF s = <<>> THEN 0
    ELSE DigitsValue(SubSeq(s, 1, Len(s) - 1), radix) * radix
           + DigitValue(s[Len(s)], radix)

\* The longest run of digits whose value is computed.  A longer run is
\* reported as the overflow it is for u16, and as the overflow it is for usize
\* from 21 decimal or 17 hexadecimal digits on; the buffers of the model hold
\* no run of digits between the two lengths.
MaxDigits == 7

\* str::parse / from_str_radix for an unsigned type: an optional "+", then
\* one or more digits of the radix; None when the text is anything else
ParseDigits(s, radix) ==
    LET d == IF s # <<>> /\ s[1] = 43 THEN Tail(s) ELSE s
    IN  IF d = <<>> \/ \E i \in 1..Len(d) : DigitValue(d[i], radix) < 0
        THEN None
        ELSE IF Len(d) > MaxDigits THEN None
        ELSE Some(DigitsValue(d, radix))

U16Max == 65535

\* str::parse::<u16>
ParseU16(s) ==
    IF ParseDigits(s, 10) = None THEN None
    ELSE IF ParseDigits(s, 10)[1] > U16Max THEN None
    ELSE ParseDigits(s, 10)

\* str::parse::<usize> and usize::from_str_radix
ParseUsize(s, radix) == ParseDigits(s, radix)

StripCR(line) ==
    IF line # <<>> /\ line[Len(line)] = CR THEN SubSeq(line, 1, Len(line) - 1) ELSE line

ParserStart ==
    [fail |-> "none", state |-> "Status", done |-> FALSE, pos |-> 0,
     status_code |-> 0, status_message |-> <<>>, headers |-> EmptyHeaders,
     content_length |-> 0, is_chunked |-> FALSE]

\* one turn of the loop over the lines, in the Status state
StatusLine(a, line) ==
    IF ~IsUtf8(line) THEN [a EXCEPT !.fail = "err"]
    ELSE LET parts == SplitN(line, 3)
         IN  IF Len(parts) < 2 THEN [a EXCEPT !.fail = "panic"]
             ELSE IF ParseU16(parts[2]) = None
                  THEN [a EXCEPT !.fail = "err"]
             ELSE IF Len(parts) < 3 THEN [a EXCEPT !.fail = "panic"]
             ELSE [a EXCEPT !.status_code = ParseU16(parts[2])[1],
                            !.status_message = parts[3],
                            !.state = "Header"]

\* one turn of the loop over the lines, in the Header state
HeaderLine(a, line) ==
    IF line = <<>> THEN [a EXCEPT !.done = TRUE]
    ELSE IF ~IsUtf8(line) THEN [a EXCEPT !.fail = "err"]
    ELSE IF SplitOnce(line) = None THEN [a EXCEPT !.fail = "err"]
    ELSE LET key   == SplitOnce(line)[1][1]
             value == SplitOnce(line)[1][2]
             b     == [a EXCEPT !.headers = HeadersInsert(a.headers, key, value)]
         IN  IF to_lowercase(key) = Str(<<"c", "o", "n", "t", "e", "n", "t", "-", "l", "e", "n", "g", "t", "h">>)
             THEN IF ParseUsize(value, 10) = None
                  THEN [b EXCEPT !.fail = "err"]
                  ELSE [b EXCEPT !.content_length = ParseUsize(value, 10)[1]]
             ELSE IF to_lowercase(key) = Str(<<"t", "r", "a", "n", "s", "f", "e", "r", "-", "e", "n", "c", "o", "d", "i", "n", "g">>)
             THEN IF to_lowercase(value) # Str(<<"c", "h", "u", "n", "k", "e", "d">>)
                  THEN [b EXCEPT !.fail = "err"]
                  ELSE [b EXCEPT !.is_chunked = TRUE]
             ELSE b

ParseLine(a, raw) ==
    LET b    == [a EXCEPT !.pos = a.pos + Len(raw) + 1]
        line == StripCR(raw)
    IN  IF a.state = "Status" THEN StatusLine(b, line) ELSE HeaderLine(b, line)

RECURSIVE ParseLines(_, _, _)
ParseLines(lines, i, a) ==
    IF i > Len(lines) \/ a.fail # "none" \/ a.done THEN a
    ELSE ParseLines(lines, i + 1, ParseLine(a, lines[i]))

\* the loop over bytes.split(|&c| c == b'\n')
ScanHead(bytes) == ParseLines(Split(bytes, LF), 1, ParserStart)

\* a plausible slip: the chunk size is read as a decimal number
ChunkSizeDecimal(octets) ==
    IF ~IsUtf8(octets) THEN None ELSE ParseUsize(octets, 10)

\* usize::from_str_radix(&String::from_utf8(Vec::from(octets))?, 16)?
ChunkSize(octets) ==
    IF ~IsUtf8(octets) THEN None ELSE ParseUsize(octets, 16)

\* the loop of the chunked branch, from body_slice on, with the body so far
RECURSIVE ChunkLoop(_, _)
ChunkLoop(body_slice, body) ==
    LET octets == Split(body_slice, CR)[1]
        n      == Len(octets)
    IN  IF n + 2 > Len(body_slice) THEN [fail |-> "panic", body |-> body]
        ELSE IF Slice(body_slice, n, n + 2) # CRLF THEN [fail |-> "panic", body |-> body]
        ELSE LET remaining == Slice(body_slice, n + 2, Len(body_slice))
                 length    == ChunkSize(octets)
             IN  IF length = None THEN [fail |-> "err", body |-> body]
                 ELSE IF length[1] = 0 THEN [fail |-> "none", body |-> body]
                 ELSE IF length[1] > Len(remaining) THEN [fail |-> "panic", body |-> body]
                 ELSE IF length[1] + 2 > Len(remaining) THEN [fail |-> "panic", body |-> body]
                 ELSE IF Slice(remaining, length[1], length[1] + 2) # CRLF
                      THEN [fail |-> "panic", body |-> body]
                 ELSE ChunkLoop(Slice(remaining, length[1] + 2, Len(remaining)),
                                body \o Slice(remaining, 0, length[1]))

\* the chunked branch
ChunkedBody(bytes, pos) ==
    IF pos > Len(bytes) THEN [fail |-> "panic", body |-> <<>>]
    ELSE ChunkLoop(Slice(bytes, pos, Len(bytes)), <<>>)

\* the other branch: content_length bytes from pos, the rest when it is 0
LengthBody(bytes, pos, content_length) ==
    LET n == IF content_length = 0
             THEN (IF Len(bytes) > pos THEN Len(bytes) - pos ELSE 0)
             ELSE content_length
    IN  IF pos > Len(bytes) \/ pos + n > Len(bytes) THEN [fail |-> "panic", body |-> <<>>]
        ELSE [fail |-> "none", body |-> Slice(bytes, pos, pos + n)]

Finish(a, b) ==
    IF b.fail # "none" THEN [kind |-> b.fail]
    ELSE [kind |-> "ok", status_code |-> a.status_code,
          status_message |-> a.status_message, headers |-> a.headers,
          body |-> b.body]

\* a plausible slip: a Content-Length, when there is one, decides the body
parse_length_first(bytes) ==
    LET a == ScanHead(bytes)
    IN  IF a.fail # "none" THEN [kind |-> a.fail]
        ELSE IF a.is_chunked /\ a.content_length = 0
             THEN Finish(a, ChunkedBody(bytes, a.pos))
             ELSE Finish(a, LengthBody(bytes, a.pos, a.content_length))

parse(bytes) ==
    LET a == ScanHead(bytes)
    IN  IF a.fail # "none" THEN [kind |-> a.fail]
        ELSE IF a.is_chunked
             THEN Finish(a, ChunkedBody(bytes, a.pos))
             ELSE Finish(a, LengthBody(bytes, a.pos, a.content_length))

(***************************************************************************)
(* Values of the variables a specification does not use.                   *)
(***************************************************************************)
NoSend == [kind |-> "none"]
NoRequest == [method |-> <<>>, path |-> <<>>, headers |-> EmptyHeaders, body |-> None]
NoResp == [kind |-> "none"]
NoResult == [kind |-> "none"]

IdleClient ==
    /\ http_version = "Http1_1"
    /\ headers = EmptyHeaders
    /\ log = <<>>
    /\ sends = 0
    /\ last = NoSend

IdleSerializer ==
    /\ req = NoRequest
    /\ sent = "none"
    /\ request_bytes = <<>>

IdleParser ==
    /\ resp = NoResp
    /\ response_bytes = <<>>
    /\ pc = "idle"
    /\ result = NoResult

clientVars == <<http_version, headers, log, sends, last>>
serializerVars == <<req, sent, request_bytes>>
parserVars == <<resp, response_bytes, pc, result>>

(***************************************************************************)
(* SpecHeaders: a Headers value under insert and remove, every call        *)
(* recorded in log.                                                        *)
(***************************************************************************)
\* the names and values the calls are made with
HeaderNames == {Str(<<"H", "o", "s", "t">>), Str(<<"H", "O", "S", "T">>), Str(<<"h", "o", "s", "t">>), Str(<<"A", "c", "c", "e", "p", "t">>), Str(<<"a", "c", "c", "e", "p", "t">>)}
HeaderValues == {Str(<<"a">>), Str(<<"b">>)}
\* the names looked up
QueryNames == HeaderNames \cup {Str(<<"h", "O", "s", "T">>), Str(<<"A", "C", "C", "E", "P", "T">>), Str(<<"O", "t", "h", "e", "r">>)}

InitHeaders ==
    /\ http_version = "Http1_1"
    /\ headers = EmptyHeaders
    /\ log = <<>>
    /\ sends = 0
    /\ last = NoSend
    /\ IdleSerializer
    /\ IdleParser

LoggedInsert(key, val) ==
    /\ Len(log) < MaxOps
    /\ headers' = HeadersInsert(headers, key, val)
    /\ log' = Append(log, [op |-> "insert", key |-> key, val |-> val])
    /\ UNCHANGED <<http_version, sends, last, serializerVars, parserVars>>

LoggedRemove(key) ==
    /\ Len(log) < MaxOps
    /\ headers' = HeadersRemove(headers, key)
    /\ log' = Append(log, [op |-> "remove", key |-> key, val |-> <<>>])
    /\ UNCHANGED <<http_version, sends, last, serializerVars, parserVars>>

NextHeaders ==
    \/ \E key \in HeaderNames, val \in HeaderValues : LoggedInsert(key, val)
    \/ \E key \in HeaderNames : LoggedRemove(key)

SpecHeaders == InitHeaders /\ [][NextHeaders]_vars

\* two names are the same text up to the case of their letters
SameIgnoringCase(a, b) ==
    /\ Len(a) = Len(b)
    /\ \A i \in 1..Len(a) :
         \/ a[i] = b[i]
         \/ a[i] \in 65..90 /\ b[i] = a[i] + 32
         \/ a[i] \in 97..122 /\ b[i] = a[i] - 32

\* the most recent call of the history whose name is N up to case, if any
RECURSIVE LastCall(_, _)
LastCall(l, N) ==
    IF l = <<>> THEN None
    ELSE IF SameIgnoringCase(l[Len(l)].key, N) THEN Some(l[Len(l)])
    ELSE LastCall(SubSeq(l, 1, Len(l) - 1), N)

\* what the history says get(N) is
Expected(N) ==
    LET c == LastCall(log, N)
    IN  IF c # None /\ c[1].op = "insert" THEN Some(c[1].val) ELSE None

\* C1: after any sequence of insert and remove calls, get(N) is the value of
\* the most recent insert under a name equal to N up to letter case, unless a
\* remove of such a name came after it, and absent otherwise; contains(N)
\* holds exactly when get(N) is present.
C1_CaseInsensitiveMap ==
    \A N \in QueryNames :
        /\ HeadersGet(headers, N) = Expected(N)
        /\ HeadersContains(headers, N) <=> (HeadersGet(headers, N) # None)

\* an insert under one spelling, overwritten under a second, read under a third
C1_Witness ==
    /\ Len(log) = 2
    /\ log[1] = [op |-> "insert", key |-> Str(<<"H", "o", "s", "t">>), val |-> Str(<<"a">>)]
    /\ log[2] = [op |-> "insert", key |-> Str(<<"H", "O", "S", "T">>), val |-> Str(<<"b">>)]
    /\ HeadersGet(headers, Str(<<"h", "O", "s", "T">>)) = Some(Str(<<"b">>))

(***************************************************************************)
(* SpecSerialize: a Request value consumed by one of the two serializers.  *)
(***************************************************************************)
\* the set of the byte strings over alphabet of length at most n
RECURSIVE SeqsUpTo(_, _)
SeqsUpTo(alphabet, n) ==
    IF n = 0 THEN {<<>>}
    ELSE LET shorter == SeqsUpTo(alphabet, n - 1)
         IN  shorter \cup {<<b>> \o t : b \in alphabet, t \in {u \in shorter : Len(u) = n - 1}}

\* body bytes: a letter and the two bytes of the line break
BodyBytes == {97, CR, LF}
\* lengths around the one- and two-digit boundaries of the hexadecimal length
LongLens == {10, 16, 255, 256}
Bodies == SeqsUpTo(BodyBytes, MaxBodyLen) \cup {Rep(97, n) : n \in LongLens}

ExampleHost == Str(<<"e", "x", "a", "m", "p", "l", "e", ".", "c", "o", "m">>)

\* header maps as callers build them, through Headers::insert
HostOnly == HeadersInsert(EmptyHeaders, Str(<<"H", "o", "s", "t">>), ExampleHost)
CallerHeaderSets ==
    { EmptyHeaders,
      HostOnly,
      HeadersInsert(HostOnly, Str(<<"C", "o", "n", "t", "e", "n", "t", "-", "L", "e", "n", "g", "t", "h">>), Str(<<"9", "9", "9">>)),
      HeadersInsert(HostOnly, Str(<<"T", "r", "a", "n", "s", "f", "e", "r", "-", "E", "n", "c", "o", "d", "i", "n", "g">>), Str(<<"g", "z", "i", "p">>)),
      HeadersInsert(HeadersInsert(HostOnly, Str(<<"T", "r", "a", "n", "s", "f", "e", "r", "-", "E", "n", "c", "o", "d", "i", "n", "g">>), Str(<<"c", "h", "u", "n", "k", "e", "d">>)),
                    Str(<<"C", "o", "n", "t", "e", "n", "t", "-", "L", "e", "n", "g", "t", "h">>), Str(<<"7">>)),
      HeadersInsert(HeadersInsert(HostOnly, Str(<<"U", "s", "e", "r", "-", "A", "g", "e", "n", "t">>), Str(<<"x", "/", "1">>)), Str(<<"A", "c", "c", "e", "p", "t">>), Str(<<"*", "/", "*">>)) }

RequestLines ==
    { [method |-> Str(<<"G", "E", "T">>), path |-> Str(<<"/", "x", "?", "y", "=", "1">>)], [method |-> Str(<<"P", "O", "S", "T">>), path |-> Str(<<"/">>)] }

Requests ==
    { [method |-> l.method, path |-> l.path, headers |-> h, body |-> b] :
        l \in RequestLines, h \in CallerHeaderSets,
        b \in {None} \cup {Some(body) : body \in Bodies} }

InitSerialize ==
    /\ IdleClient
    /\ IdleParser
    /\ req \in Requests
    /\ sent = "none"
    /\ request_bytes = <<>>

SendV10 ==
    /\ sent = "none"
    /\ request_bytes' = send_v10(req)
    /\ sent' = "v10"
    /\ UNCHANGED <<req, clientVars, parserVars>>

SendV11 ==
    /\ sent = "none"
    /\ request_bytes' = send_v11(req)
    /\ sent' = "v11"
    /\ UNCHANGED <<req, clientVars, parserVars>>

NextSerialize == SendV10 \/ SendV11

SpecSerialize == InitSerialize /\ [][NextSerialize]_vars

\* the offsets at which pat occurs in s
Occurrences(s, pat) ==
    {i \in 0..(Len(s) - Len(pat)) : \A j \in 1..Len(pat) : s[i + j] = pat[j]}

\* offset of the first occurrence of pat in s, or -1
FindSeq(s, pat) == IF Occurrences(s, pat) = {} THEN -1 ELSE Min(Occurrences(s, pat))

\* the number of occurrences of pat in s
CountSeq(s, pat) == Cardinality(Occurrences(s, pat))

\* the header block of a written message: from the end of its first line up to
\* and including the line break of its last header line
HeadOf(bytes) == Slice(bytes, FindSeq(bytes, CRLF), FindSeq(bytes, CRLF \o CRLF) + 2)

\* what follows the blank line that ends the header block
AfterHead(bytes) == Slice(bytes, FindSeq(bytes, CRLF \o CRLF) + 4, Len(bytes))

\* the header block holds the line "name: value"
HasLine(bytes, name, value) ==
    FindSeq(HeadOf(bytes), CRLF \o name \o Str(<<":", " ">>) \o value \o CRLF) >= 0

\* the value of the first line "name: value" of the header block
ValueOf(bytes, name) ==
    LET h    == HeadOf(bytes)
        from == FindSeq(h, CRLF \o name \o Str(<<":", " ">>)) + Len(name) + 4
        rest == Slice(h, from, Len(h))
    IN  Slice(rest, 0, FindSeq(rest, CRLF))

\* the number of lines of the header block that start with "name: "
LinesNamed(bytes, name) == CountSeq(HeadOf(bytes), CRLF \o name \o Str(<<":", " ">>))

\* the number the digits of s write in the alphabet of digits, read without
\* the parser: 0 for the empty text, -1 when a byte is no digit
RECURSIVE ValueIn(_, _)
ValueIn(s, digits) ==
    IF s = <<>> THEN 0
    ELSE LET d    == s[Len(s)]
             rest == ValueIn(SubSeq(s, 1, Len(s) - 1), digits)
         IN  IF rest < 0 \/ ~\E k \in 1..Len(digits) : digits[k] = d THEN -1
             ELSE rest * Len(digits) + (CHOOSE k \in 1..Len(digits) : digits[k] = d) - 1

\* s is the shortest way to write n in the alphabet of digits
Writes(s, n, digits) ==
    /\ s # <<>>
    /\ Len(s) > 1 => s[1] # digits[1]
    /\ ValueIn(s, digits) = n

DecDigits == Str(<<"0", "1", "2", "3", "4", "5", "6", "7", "8", "9">>)
LowerHexDigits == Str(<<"0", "1", "2", "3", "4", "5", "6", "7", "8", "9", "a", "b", "c", "d", "e", "f">>)

ScenarioRequest ==
    [method |-> Str(<<"G", "E", "T">>), path |-> Str(<<"/", "x", "?", "y", "=", "1">>), headers |-> HostOnly, body |-> None]

\* C2, as claimed: the request GET /x?y=1 with no body and the one header
\* Host: example.com, serialized by send_v10, is the request line, then the
\* host line, then the content-length line, then the blank line.
C2_HostLineFirst ==
    (sent = "v10" /\ req = ScenarioRequest) =>
        request_bytes = Str(<<"G", "E", "T", " ", "/", "x", "?", "y", "=", "1", " ", "H", "T", "T", "P", "/", "1", ".", "0">>) \o CRLF
                          \o Str(<<"h", "o", "s", "t", ":", " ", "e", "x", "a", "m", "p", "l", "e", ".", "c", "o", "m">>) \o CRLF
                          \o Str(<<"c", "o", "n", "t", "e", "n", "t", "-", "l", "e", "n", "g", "t", "h", ":", " ", "0">>) \o CRLF
                          \o CRLF

\* C2, amended: the same request serializes to the request line, then the
\* content-length line, then the host line (the map's ascending key order),
\* then the blank line.
C2_ContentLengthLineFirst ==
    (sent = "v10" /\ req = ScenarioRequest) =>
        request_bytes = Str(<<"G", "E", "T", " ", "/", "x", "?", "y", "=", "1", " ", "H", "T", "T", "P", "/", "1", ".", "0">>) \o CRLF
                          \o Str(<<"c", "o", "n", "t", "e", "n", "t", "-", "l", "e", "n", "g", "t", "h", ":", " ", "0">>) \o CRLF
                          \o Str(<<"h", "o", "s", "t", ":", " ", "e", "x", "a", "m", "p", "l", "e", ".", "c", "o", "m">>) \o CRLF
                          \o CRLF

C2_Witness == sent = "v10" /\ req = ScenarioRequest /\ request_bytes # <<>>

\* C3: whatever the request, the bytes send_v11 writes hold the header line
\* "transfer-encoding: chunked", and after the blank line that ends the header
\* block comes only "0\r\n\r\n" when the body is absent or empty, and otherwise
\* one chunk (the body's length in lower-case hexadecimal, "\r\n", the body,
\* "\r\n") and then "0\r\n\r\n".
C3_ChunkedFraming ==
    sent = "v11" =>
        LET B    == unwrap_or_default(req.body)
            tail == AfterHead(request_bytes)
            last_chunk == Str(<<"0">>) \o CRLF \o CRLF
        IN  /\ HasLine(request_bytes, Str(<<"t", "r", "a", "n", "s", "f", "e", "r", "-", "e", "n", "c", "o", "d", "i", "n", "g">>), Str(<<"c", "h", "u", "n", "k", "e", "d">>))
            /\ LinesNamed(request_bytes, Str(<<"t", "r", "a", "n", "s", "f", "e", "r", "-", "e", "n", "c", "o", "d", "i", "n", "g">>)) = 1
            /\ B = <<>> => tail = last_chunk
            /\ B # <<>> =>
                 \E k \in 1..4 :
                     /\ k <= Len(tail)
                     /\ Writes(Slice(tail, 0, k), Len(B), LowerHexDigits)
                     /\ Slice(tail, k, Len(tail)) = CRLF \o B \o CRLF \o last_chunk

\* a body whose length takes two hexadecimal digits, one of them a letter,
\* under a caller's own Transfer-Encoding
C3_Witness ==
    /\ sent = "v11"
    /\ req.body = Some(Rep(97, 255))
    /\ HeadersGet(req.headers, Str(<<"T", "r", "a", "n", "s", "f", "e", "r", "-", "E", "n", "c", "o", "d", "i", "n", "g">>)) = Some(Str(<<"g", "z", "i", "p">>))
    /\ Slice(AfterHead(request_bytes), 0, 4) = Str(<<"f", "f">>) \o CRLF

\* the written request read as a response: its first line replaced by a
\* status line
AsResponse(bytes) ==
    Str(<<"H", "T", "T", "P", "/", "1", ".", "0", " ", "2", "0", "0", " ", "O", "K">>) \o Slice(bytes, FindSeq(bytes, CRLF), Len(bytes))

\* C8: for every non-empty body B and every caller header set, the header
\* block send_v10 writes carries one content-length, the byte length of B
\* (whatever Content-Length the caller set), and the parser's Content-Length
\* logic, applied to that header block and the bytes after it, gives back B.
C8_V10RoundTrip ==
    (sent = "v10" /\ unwrap_or_default(req.body) # <<>>) =>
        LET B   == unwrap_or_default(req.body)
            buf == AsResponse(request_bytes)
            a   == ScanHead(buf)
            te  == HeadersGet(req.headers, Str(<<"T", "r", "a", "n", "s", "f", "e", "r", "-", "E", "n", "c", "o", "d", "i", "n", "g">>))
        IN  /\ LinesNamed(request_bytes, Str(<<"c", "o", "n", "t", "e", "n", "t", "-", "l", "e", "n", "g", "t", "h">>)) = 1
            /\ Writes(ValueOf(request_bytes, Str(<<"c", "o", "n", "t", "e", "n", "t", "-", "l", "e", "n", "g", "t", "h">>)), Len(B), DecDigits)
            /\ LengthBody(buf, FindSeq(buf, CRLF \o CRLF) + 4, Len(B))
                 = [fail |-> "none", body |-> B]
            /\ (te = None \/ te = Some(Str(<<"c", "h", "u", "n", "k", "e", "d">>))) =>
                 /\ a.fail = "none"
                 /\ a.content_length = Len(B)
                 /\ LengthBody(buf, a.pos, a.content_length) = [fail |-> "none", body |-> B]
            /\ te = None =>
                 /\ parse(buf).kind = "ok"
                 /\ parse(buf).body = B

\* a body with line breaks in it, under a caller's own Content-Length
C8_Witness ==
    /\ sent = "v10"
    /\ req.body = Some(<<CR, LF, 97>>)
    /\ HeadersGet(req.headers, Str(<<"C", "o", "n", "t", "e", "n", "t", "-", "L", "e", "n", "g", "t", "h">>)) = Some(Str(<<"9", "9", "9">>))
    /\ parse(AsResponse(request_bytes)).kind = "ok"

(***************************************************************************)
(* SpecParse: a response buffer handed to Response::parse.  resp records   *)
(* how the buffer was put together: its status line, its header lines in   *)
(* order, and what follows the blank line.                                 *)
(***************************************************************************)
Header(name, value) == [name |-> name, value |-> value]

\* a chunk as a server frames it, its size in lower- or upper-case digits
EncodeChunk(b, upper) ==
    (IF upper THEN [i \in 1..Len(ToLowerHex(Len(b))) |->
                      IF ToLowerHex(Len(b))[i] \in 97..102
                      THEN ToLowerHex(Len(b))[i] - 32 ELSE ToLowerHex(Len(b))[i]]
     ELSE ToLowerHex(Len(b)))
      \o CRLF \o b \o CRLF

\* what follows the blank line:
\*   "raw":    the bytes data[1], then extra
\*   "v11":    the body data[1] framed as send_v11 frames it, then extra
\*   "chunks": the chunks data, the zero-size chunk line, then extra
Payload(r) ==
    IF r.framing = "raw" THEN r.data[1] \o r.extra
    ELSE IF r.framing = "v11" THEN write_chunked(r.data[1]) \o r.extra
    ELSE Concat([i \in 1..Len(r.data) |-> EncodeChunk(r.data[i], r.upper)])
           \o Str(<<"0">>) \o CRLF \o r.extra

Assemble(r) ==
    r.status \o CRLF
      \o Concat([i \in 1..Len(r.hdrs) |-> r.hdrs[i].name \o Str(<<":", " ">>) \o r.hdrs[i].value \o CRLF])
      \o CRLF
      \o Payload(r)

StatusLines == {Str(<<"H", "T", "T", "P", "/", "1", ".", "1", " ", "2", "0", "0", " ", "O", "K">>), Str(<<"H", "T", "T", "P", "/", "1", ".", "0", " ", "4", "0", "4", " ", "N", "o", "t", " ", "F", "o", "u", "n", "d">>)}

\* Content-Length headers, up to one more than the longest raw tail
LengthHeaders == {Header(Str(<<"C", "o", "n", "t", "e", "n", "t", "-", "L", "e", "n", "g", "t", "h">>), ToDecimal(n)) : n \in 0..(MaxBodyLen + 1)}
ChunkedHeaders ==
    {Header(Str(<<"T", "r", "a", "n", "s", "f", "e", "r", "-", "E", "n", "c", "o", "d", "i", "n", "g">>), Str(<<"c", "h", "u", "n", "k", "e", "d">>)), Header(Str(<<"T", "R", "A", "N", "S", "F", "E", "R", "-", "E", "N", "C", "O", "D", "I", "N", "G">>), Str(<<"C", "h", "u", "n", "k", "e", "d">>))}

\* fixed-length and close-delimited responses: any bytes after the blank line
RawResponses ==
    { [status |-> st, hdrs |-> h, framing |-> "raw", data |-> <<b>>,
       extra |-> <<>>, upper |-> FALSE] :
        st \in StatusLines,
        h \in {<<>>} \cup {<<l>> : l \in LengthHeaders}
                \cup {<<Header(Str(<<"S", "e", "r", "v", "e", "r">>), Str(<<"x">>)), l>> :
                        l \in {Header(Str(<<"c", "o", "n", "t", "e", "n", "t", "-", "l", "e", "n", "g", "t", "h">>), Str(<<"2">>))}},
        b \in SeqsUpTo(BodyBytes, MaxBodyLen) }

\* a body framed as send_v11 frames it, under Transfer-Encoding: chunked
V11Responses ==
    { [status |-> Str(<<"H", "T", "T", "P", "/", "1", ".", "1", " ", "2", "0", "0", " ", "O", "K">>), hdrs |-> <<te>>, framing |-> "v11",
       data |-> <<b>>, extra |-> <<>>, upper |-> FALSE] :
        te \in ChunkedHeaders, b \in Bodies }

ChunkBodies == SeqsUpTo(BodyBytes, 2) \ {<<>>}
ChunkLists ==
    {<<>>} \cup {<<b>> : b \in ChunkBodies \cup {Rep(97, 26)}}
           \cup {<<b, c>> : b \in ChunkBodies, c \in {<<97>>, <<CR, LF>>}}

\* what may follow the zero-size chunk line: the blank line, a trailer, nothing
Trailers == {CRLF, Str(<<"X", "-", "S", "u", "m", ":", " ", "1">>) \o CRLF \o CRLF, <<>>}

\* chunked responses that also carry a Content-Length, in either order
BothResponses ==
    { [status |-> Str(<<"H", "T", "T", "P", "/", "1", ".", "1", " ", "2", "0", "0", " ", "O", "K">>), hdrs |-> h, framing |-> "chunks",
       data |-> cs, extra |-> x, upper |-> up] :
        h \in UNION {{<<te, l>>, <<l, te>>} :
                       te \in ChunkedHeaders,
                       l \in {Header(Str(<<"C", "o", "n", "t", "e", "n", "t", "-", "L", "e", "n", "g", "t", "h">>), v) : v \in {Str(<<"0">>), Str(<<"2">>), Str(<<"9", "9">>)}}},
        cs \in ChunkLists, x \in Trailers, up \in BOOLEAN }

\* a body framed as one chunk, whatever its length, and the zero-size chunk
OneChunkResponses ==
    { [status |-> Str(<<"H", "T", "T", "P", "/", "1", ".", "1", " ", "2", "0", "0", " ", "O", "K">>), hdrs |-> <<te>>, framing |-> "chunks",
       data |-> <<b>>, extra |-> CRLF, upper |-> FALSE] :
        te \in ChunkedHeaders, b \in Bodies }

Responses == RawResponses \cup V11Responses \cup OneChunkResponses \cup BothResponses

InitParse ==
    /\ IdleClient
    /\ IdleSerializer
    /\ resp \in Responses
    /\ response_bytes = Assemble(resp)
    /\ pc = "input"
    /\ result = NoResult

Parse ==
    /\ pc \in {"input", "cut"}
    /\ result' = parse(response_bytes)
    /\ pc' = "parsed"
    /\ UNCHANGED <<resp, response_bytes, clientVars, serializerVars>>

NextParse == Parse

SpecParse == InitParse /\ [][NextParse]_vars

\* the header lines of r whose name is name up to letter case
Named(r, name) == {i \in 1..Len(r.hdrs) : SameIgnoringCase(r.hdrs[i].name, name)}

\* the length the one Content-Length line of r declares, or -1
DeclaredLength(r) ==
    IF Cardinality(Named(r, Str(<<"c", "o", "n", "t", "e", "n", "t", "-", "l", "e", "n", "g", "t", "h">>))) # 1 THEN -1
    ELSE ValueIn(r.hdrs[CHOOSE i \in Named(r, Str(<<"c", "o", "n", "t", "e", "n", "t", "-", "l", "e", "n", "g", "t", "h">>)) : TRUE].value, DecDigits)

\* C4, as claimed: when the buffer is not chunked and its header block carries
\* a Content-Length of n, n >= 0, with at least n bytes after the blank line,
\* the body is the first n of those bytes, whatever follows them.
C4_BodyIsDeclaredLength ==
    (/\ pc = "parsed"
     /\ resp.framing = "raw"
     /\ Named(resp, Str(<<"t", "r", "a", "n", "s", "f", "e", "r", "-", "e", "n", "c", "o", "d", "i", "n", "g">>)) = {}
     /\ DeclaredLength(resp) >= 0
     /\ DeclaredLength(resp) <= Len(Payload(resp))) =>
        /\ result.kind = "ok"
        /\ result.body = Slice(Payload(resp), 0, DeclaredLength(resp))

\* the same for a declared length of at least one
C4_BodyIsPositiveDeclaredLength ==
    (/\ pc = "parsed"
     /\ resp.framing = "raw"
     /\ Named(resp, Str(<<"t", "r", "a", "n", "s", "f", "e", "r", "-", "e", "n", "c", "o", "d", "i", "n", "g">>)) = {}
     /\ DeclaredLength(resp) >= 1
     /\ DeclaredLength(resp) <= Len(Payload(resp))) =>
        /\ result.kind = "ok"
        /\ result.body = Slice(Payload(resp), 0, DeclaredLength(resp))

\* C6: when the header block holds Transfer-Encoding: chunked (in any letter
\* case) and a Content-Length, in either order, the body is the chunks in
\* order up to the zero-size chunk, whatever the Content-Length says.
C6_ChunkedOverridesLength ==
    (/\ pc = "parsed"
     /\ resp.framing = "chunks"
     /\ Named(resp, Str(<<"t", "r", "a", "n", "s", "f", "e", "r", "-", "e", "n", "c", "o", "d", "i", "n", "g">>)) # {}
     /\ Named(resp, Str(<<"c", "o", "n", "t", "e", "n", "t", "-", "l", "e", "n", "g", "t", "h">>)) # {}) =>
        /\ result.kind = "ok"
        /\ result.body = Concat(resp.data)

\* two chunks under a Content-Length of 2 that comes first, and a trailer
C6_Witness ==
    /\ pc = "parsed"
    /\ resp.hdrs = <<Header(Str(<<"C", "o", "n", "t", "e", "n", "t", "-", "L", "e", "n", "g", "t", "h">>), Str(<<"2">>)), Header(Str(<<"T", "R", "A", "N", "S", "F", "E", "R", "-", "E", "N", "C", "O", "D", "I", "N", "G">>), Str(<<"C", "h", "u", "n", "k", "e", "d">>))>>
    /\ resp.data = <<<<97, CR>>, <<CR, LF>>>>
    /\ resp.extra = Str(<<"X", "-", "S", "u", "m", ":", " ", "1">>) \o CRLF \o CRLF
    /\ result.kind = "ok"
    /\ result.body = <<97, CR, CR, LF>>

\* C7: a body B of any bytes, the line break's among them, or of none, framed
\* as send_v11 frames it (also with the empty body written as a chunk of its
\* own) after a header block with Transfer-Encoding: chunked, parses to a body
\* equal to B.
C7_ChunkedRoundTrip ==
    (/\ pc = "parsed"
     /\ resp.framing = "v11" \/ resp \in OneChunkResponses
     /\ Named(resp, Str(<<"t", "r", "a", "n", "s", "f", "e", "r", "-", "e", "n", "c", "o", "d", "i", "n", "g">>)) # {}) =>
        /\ result.kind = "ok"
        /\ result.body = resp.data[1]

\* a body that is a line break and a hexadecimal digit
C7_Witness ==
    /\ pc = "parsed"
    /\ resp.framing = "v11"
    /\ resp.data[1] = <<CR, LF, 97>>
    /\ response_bytes = Str(<<"H", "T", "T", "P", "/", "1", ".", "1", " ", "2", "0", "0", " ", "O", "K">>) \o CRLF \o Str(<<"T", "r", "a", "n", "s", "f", "e", "r", "-", "E", "n", "c", "o", "d", "i", "n", "g", ":", " ", "c", "h", "u", "n", "k", "e", "d">>) \o CRLF
                          \o CRLF \o Str(<<"3">>) \o CRLF \o <<CR, LF, 97>> \o CRLF
                          \o Str(<<"0">>) \o CRLF \o CRLF
    /\ result.kind = "ok"
    /\ result.body = <<CR, LF, 97>>

(***************************************************************************)
(* SpecReceive: the buffer may be cut short before it is parsed, as when    *)
(* the peer closes the stream early.                                       *)
(***************************************************************************)
Whole(st, h, b) ==
    [status |-> st, hdrs |-> h, framing |-> "raw", data |-> <<b>>,
     extra |-> <<>>, upper |-> FALSE]

WholeResponses ==
    { Whole(Str(<<"H", "T", "T", "P", "/", "1", ".", "1", " ", "2", "0", "0", " ", "O", "K">>), <<Header(Str(<<"C", "o", "n", "t", "e", "n", "t", "-", "L", "e", "n", "g", "t", "h">>), Str(<<"5">>))>>, Str(<<"h", "e", "l", "l", "o">>)),
      Whole(Str(<<"H", "T", "T", "P", "/", "1", ".", "1", " ", "2", "0", "0", " ", "O", "K">>), <<Header(Str(<<"T", "r", "a", "n", "s", "f", "e", "r", "-", "E", "n", "c", "o", "d", "i", "n", "g">>), Str(<<"c", "h", "u", "n", "k", "e", "d">>))>>,
            Str(<<"5">>) \o CRLF \o Str(<<"h", "e", "l", "l", "o">>) \o CRLF \o Str(<<"0">>) \o CRLF \o CRLF),
      Whole(Str(<<"H", "T", "T", "P", "/", "1", ".", "1", " ", "2", "0", "0", " ", "O", "K">>), <<Header(Str(<<"T", "r", "a", "n", "s", "f", "e", "r", "-", "E", "n", "c", "o", "d", "i", "n", "g">>), Str(<<"c", "h", "u", "n", "k", "e", "d">>))>>,
            Str(<<"3">>) \o CRLF \o Str(<<"h", "e", "l", "l", "o">>) \o CRLF \o Str(<<"0">>) \o CRLF \o CRLF),
      Whole(Str(<<"H", "T", "T", "P", "/", "1", ".", "1", " ", "2", "0", "0", " ", "O", "K">>), <<Header(Str(<<"T", "r", "a", "n", "s", "f", "e", "r", "-", "E", "n", "c", "o", "d", "i", "n", "g">>), Str(<<"g", "z", "i", "p">>))>>, <<>>),
      Whole(Str(<<"H", "T", "T", "P", "/", "1", ".", "1", " ", "a", "b", "c", " ", "O", "K">>), <<Header(Str(<<"C", "o", "n", "t", "e", "n", "t", "-", "L", "e", "n", "g", "t", "h">>), Str(<<"x">>))>>, <<>>),
      Whole(Str(<<"H", "T", "T", "P", "/", "1", ".", "1", " ", "2", "0", "0", " ", "O", "K">>), <<Header(Str(<<"S", "e", "r", "v", "e", "r">>), <<255>>)>>, Str(<<"h", "i">>)) }

InitReceive ==
    /\ IdleClient
    /\ IdleSerializer
    /\ resp \in WholeResponses
    /\ response_bytes = Assemble(resp)
    /\ pc = "input"
    /\ result = NoResult

\* only the first n bytes arrive
CutShort(n) ==
    /\ pc = "input"
    /\ n < Len(response_bytes)
    /\ response_bytes' = SubSeq(response_bytes, 1, n)
    /\ pc' = "cut"
    /\ UNCHANGED <<resp, result, clientVars, serializerVars>>

NextReceive ==
    \/ \E n \in 0..Len(response_bytes) : CutShort(n)
    \/ Parse

SpecReceive == InitReceive /\ [][NextReceive]_vars

\* C5, as claimed: Response::parse never aborts; whatever the buffer (a status
\* line of fewer than three tokens, a buffer cut before the blank line or
\* before the declared Content-Length, a chunk size larger than what is left,
\* a chunk not followed by "\r\n"), it returns a Response or an error.
C5_ParseReturns ==
    pc = "parsed" => result.kind \in {"ok", "err"}

\* the cases the claim names, each ending in an abort
C5_StatusLineOfTwoTokensAborts ==
    parse(Str(<<"H", "T", "T", "P", "/", "1", ".", "1", " ", "2", "0", "0">>) \o CRLF \o CRLF).kind = "panic"
C5_CutBeforeBlankLineAborts ==
    parse(Str(<<"H", "T", "T", "P", "/", "1", ".", "1", " ", "2", "0", "0", " ", "O", "K">>) \o CRLF \o Str(<<"C", "o", "n", "t", "e", "n", "t", "-", "L", "e", "n", "g", "t", "h", ":", " ", "5">>) \o CRLF).kind = "panic"
C5_CutBeforeDeclaredLengthAborts ==
    parse(Str(<<"H", "T", "T", "P", "/", "1", ".", "1", " ", "2", "0", "0", " ", "O", "K">>) \o CRLF \o Str(<<"C", "o", "n", "t", "e", "n", "t", "-", "L", "e", "n", "g", "t", "h", ":", " ", "5">>) \o CRLF \o CRLF \o Str(<<"h", "e", "l">>)).kind
        = "panic"
C5_ChunkLargerThanRestAborts ==
    parse(Str(<<"H", "T", "T", "P", "/", "1", ".", "1", " ", "2", "0", "0", " ", "O", "K">>) \o CRLF \o Str(<<"T", "r", "a", "n", "s", "f", "e", "r", "-", "E", "n", "c", "o", "d", "i", "n", "g", ":", " ", "c", "h", "u", "n", "k", "e", "d">>) \o CRLF \o CRLF
            \o Str(<<"5">>) \o CRLF \o Str(<<"h", "e", "l">>)).kind = "panic"
C5_ChunkWithoutLineBreakAborts ==
    parse(Str(<<"H", "T", "T", "P", "/", "1", ".", "1", " ", "2", "0", "0", " ", "O", "K">>) \o CRLF \o Str(<<"T", "r", "a", "n", "s", "f", "e", "r", "-", "E", "n", "c", "o", "d", "i", "n", "g", ":", " ", "c", "h", "u", "n", "k", "e", "d">>) \o CRLF \o CRLF
            \o Str(<<"3">>) \o CRLF \o Str(<<"h", "e", "l", "l", "o">>) \o CRLF \o Str(<<"0">>) \o CRLF \o CRLF).kind = "panic"

(***************************************************************************)
(* Spec: a Client, its header map changed through headers_mut, and          *)
(* Client::send.                                                           *)
(***************************************************************************)
HttpPort == 80
HttpsPort == 443

\* format!("{}/{}", env!("CARGO_PKG_NAME"), env!("CARGO_PKG_VERSION")): the
\* package's name and version
DefaultUserAgent == Str(<<"l", "e", "a", "r", "n", "i", "n", "g", "-", "h", "t", "t", "p", "/", "0", ".", "1", ".", "0">>)

\* what Url::parse makes of the url text: parsed is FALSE when it fails
Url(parsed, scheme, host, port, path, query) ==
    [parsed |-> parsed, scheme |-> scheme, host |-> host, port |-> port,
     path |-> path, query |-> query]

Urls ==
    { Url(TRUE, "http", Some(ExampleHost), None, Str(<<"/", "x">>), Some(Str(<<"y", "=", "1">>))),
      Url(TRUE, "https", Some(Str(<<"e", "x", "a", "m", "p", "l", "e", ".", "o", "r", "g">>)), None, Str(<<"/">>), None),
      Url(TRUE, "ftp", Some(ExampleHost), Some(21), Str(<<"/">>), None),
      Url(TRUE, "mailto", None, None, Str(<<"a", "@", "e", "x", "a", "m", "p", "l", "e", ".", "c", "o", "m">>), None),
      Url(FALSE, "", None, None, <<>>, None) }

\* the url passes the checks send makes before it builds the request
UrlAccepted(url) ==
    /\ url.parsed
    /\ url.host # None
    /\ url.scheme \in {"http", "https"}

Port(url) ==
    IF url.port # None THEN url.port[1]
    ELSE IF url.scheme = "http" THEN HttpPort ELSE HttpsPort

\* a plausible slip: Host is set only when the caller set none
BuildHeadersKeepHost(stored, version, host) ==
    LET h1 == IF HeadersContains(stored, Str(<<"H", "o", "s", "t">>)) THEN stored
              ELSE HeadersInsert(stored, Str(<<"H", "o", "s", "t">>), host)
        h2 == IF ~HeadersContains(h1, Str(<<"U", "s", "e", "r", "-", "A", "g", "e", "n", "t">>))
              THEN HeadersInsert(h1, Str(<<"U", "s", "e", "r", "-", "A", "g", "e", "n", "t">>), DefaultUserAgent) ELSE h1
    IN  IF version = "Http1_1" THEN HeadersInsert(h2, Str(<<"C", "o", "n", "n", "e", "c", "t", "i", "o", "n">>), Str(<<"c", "l", "o", "s", "e">>)) ELSE h2

\* the header set of the request, from a clone of the client's
BuildHeaders(stored, version, host) ==
    LET h1 == HeadersInsert(stored, Str(<<"H", "o", "s", "t">>), host)
        h2 == IF ~HeadersContains(h1, Str(<<"U", "s", "e", "r", "-", "A", "g", "e", "n", "t">>))
              THEN HeadersInsert(h1, Str(<<"U", "s", "e", "r", "-", "A", "g", "e", "n", "t">>), DefaultUserAgent) ELSE h1
    IN  IF version = "Http1_1" THEN HeadersInsert(h2, Str(<<"C", "o", "n", "n", "e", "c", "t", "i", "o", "n">>), Str(<<"c", "l", "o", "s", "e">>)) ELSE h2

BuildRequest(stored, version, method, url, body) ==
    [method |-> method,
     path |-> IF url.query # None THEN url.path \o Str(<<"?">>) \o url.query[1] ELSE url.path,
     headers |-> BuildHeaders(stored, version, url.host[1]),
     body |-> body]

Serialize(version, r) == IF version = "Http1_0" THEN send_v10(r) ELSE send_v11(r)

\* What the transport does during one call:
\*   connect: the address resolves and the connection opens ("ok") or not
\*   tls:     the TLS session is set up ("ok") or not; "ok" on a plain stream
\*   write:   the result of write_all: "Ok", or the kind of its error
\*   read:    the result of read_to_end: "Ok", the kind of its error, or
\*            "NotReached" when write_all failed
\*   got:     the bytes read_to_end put in response_bytes before it returned
ErrorKinds == {"UnexpectedEof", "ConnectionReset"}

FullReply == Str(<<"H", "T", "T", "P", "/", "1", ".", "1", " ", "2", "0", "0", " ", "O", "K">>) \o CRLF \o Str(<<"C", "o", "n", "t", "e", "n", "t", "-", "L", "e", "n", "g", "t", "h", ":", " ", "2">>) \o CRLF \o CRLF \o Str(<<"h", "i">>)
Replies == {FullReply, <<>>}

Transport(connect, tls, write, read, got) ==
    [connect |-> connect, tls |-> tls, write |-> write, read |-> read, got |-> got]

Transports ==
    {Transport("err", "NotReached", "NotReached", "NotReached", <<>>),
     Transport("ok", "err", "NotReached", "NotReached", <<>>)}
      \cup {Transport("ok", "ok", k, "NotReached", <<>>) : k \in ErrorKinds}
      \cup {Transport("ok", "ok", "Ok", r, g) : r \in {"Ok"} \cup ErrorKinds, g \in Replies}

\* do_read_write: the result and the bytes read
do_read_write(t) ==
    IF t.write # "Ok" THEN [result |-> t.write, response_bytes |-> <<>>]
    ELSE [result |-> t.read, response_bytes |-> t.got]

\* the call, from the connect on: how it ends and, when the response was
\* parsed, what the parser produced
Exchange(url, t) ==
    LET rw == do_read_write(t)
    IN  IF t.connect # "ok" THEN [returned |-> "connect_error", response |-> NoResult]
        ELSE IF url.scheme = "https"
        THEN IF t.tls # "ok" THEN [returned |-> "tls_error", response |-> NoResult]
             ELSE IF rw.result # "Ok" /\ rw.result # "UnexpectedEof"
                  THEN [returned |-> "io_error", response |-> NoResult]
                  ELSE [returned |-> "parsed", response |-> parse(rw.response_bytes)]
        ELSE IF rw.result # "Ok"
             THEN [returned |-> "io_error", response |-> NoResult]
             ELSE [returned |-> "parsed", response |-> parse(rw.response_bytes)]

\* the transport of a call that never got to it
Untouched == Transport("NotReached", "NotReached", "NotReached", "NotReached", <<>>)

\* Client::send as a whole: the record of the call
SendOutcome(stored, version, method, url, body, t) ==
    IF ~UrlAccepted(url)
    THEN [kind |-> "sent", method |-> method, url |-> url, body |-> body,
          config |-> stored, port |-> None, io |-> Untouched, request_bytes |-> <<>>,
          returned |-> "url_error", response |-> NoResult]
    ELSE LET ex == Exchange(url, t)
         IN  [kind |-> "sent", method |-> method, url |-> url, body |-> body,
              config |-> stored, port |-> Some(Port(url)), io |-> t,
              request_bytes |->
                  Serialize(version, BuildRequest(stored, version, method, url, body)),
              returned |-> ex.returned,
              response |-> ex.response]

ClientNames == {Str(<<"H", "o", "s", "t">>), Str(<<"U", "s", "e", "r", "-", "A", "g", "e", "n", "t">>), Str(<<"U", "S", "E", "R", "-", "A", "G", "E", "N", "T">>), Str(<<"C", "o", "n", "n", "e", "c", "t", "i", "o", "n">>)}
ClientValues == {Str(<<"x">>)}

\* (method, body) as Client::get and Client::post pass them to send
Calls == {<<Str(<<"G", "E", "T">>), None>>, <<Str(<<"P", "O", "S", "T">>), Some(Str(<<"h", "i">>))>>}

Init ==
    /\ http_version \in {"Http1_0", "Http1_1"}
    /\ headers = EmptyHeaders
    /\ log = <<>>
    /\ sends = 0
    /\ last = NoSend
    /\ IdleSerializer
    /\ IdleParser

\* client.headers_mut().insert(key, val)
Insert(key, val) ==
    /\ headers' = HeadersInsert(headers, key, val)
    /\ UNCHANGED <<http_version, log, sends, last, serializerVars, parserVars>>

\* client.headers_mut().remove(key)
Remove(key) ==
    /\ headers' = HeadersRemove(headers, key)
    /\ UNCHANGED <<http_version, log, sends, last, serializerVars, parserVars>>

Send(method, url, body, t) ==
    /\ sends < MaxSends
    /\ t.tls = "err" => url.scheme = "https"
    /\ sends' = sends + 1
    /\ last' = SendOutcome(headers, http_version, method, url, body, t)
    /\ UNCHANGED <<http_version, headers, log, serializerVars, parserVars>>

Next ==
    \/ \E key \in ClientNames, val \in ClientValues : Insert(key, val)
    \/ \E key \in ClientNames : Remove(key)
    \/ \E c \in Calls, url \in Urls, t \in Transports : Send(c[1], url, c[2], t)

Spec == Init /\ [][Next]_vars

\* the last call got past the checks of its url
Accepted == last.kind = "sent" /\ last.returned # "url_error"

\* The headers of the request on the wire, for a call that gets past the checks
\* of its url: host is the url's host whatever Host the caller configured;
\* user-agent is the caller's value when there is one (under any letter case)
\* and the default otherwise; connection is close under HTTP/1.1 and, under
\* HTTP/1.0, what the caller configured, if anything.
WireHeaders ==
    Accepted =>
        LET wire == last.request_bytes
            ua   == HeadersGet(last.config, Str(<<"U", "s", "e", "r", "-", "A", "g", "e", "n", "t">>))
            conn == HeadersGet(last.config, Str(<<"C", "o", "n", "n", "e", "c", "t", "i", "o", "n">>))
        IN  /\ LinesNamed(wire, Str(<<"h", "o", "s", "t">>)) = 1
            /\ HasLine(wire, Str(<<"h", "o", "s", "t">>), last.url.host[1])
            /\ LinesNamed(wire, Str(<<"u", "s", "e", "r", "-", "a", "g", "e", "n", "t">>)) = 1
            /\ HasLine(wire, Str(<<"u", "s", "e", "r", "-", "a", "g", "e", "n", "t">>), IF ua # None THEN ua[1] ELSE DefaultUserAgent)
            /\ http_version = "Http1_1" =>
                 /\ LinesNamed(wire, Str(<<"c", "o", "n", "n", "e", "c", "t", "i", "o", "n">>)) = 1
                 /\ HasLine(wire, Str(<<"c", "o", "n", "n", "e", "c", "t", "i", "o", "n">>), Str(<<"c", "l", "o", "s", "e">>))
            /\ http_version = "Http1_0" =>
                 IF conn = None THEN LinesNamed(wire, Str(<<"c", "o", "n", "n", "e", "c", "t", "i", "o", "n">>)) = 0
                 ELSE /\ LinesNamed(wire, Str(<<"c", "o", "n", "n", "e", "c", "t", "i", "o", "n">>)) = 1
                      /\ HasLine(wire, Str(<<"c", "o", "n", "n", "e", "c", "t", "i", "o", "n">>), conn[1])

\* The header map the Client stores is the same after a call as before it.
StoredHeadersKept == [][sends' # sends => headers' = headers]_vars

\* C9: for every Client::send call that gets past the checks of its url, the
\* request put on the wire has host equal to the url's host whatever Host the
\* caller configured, user-agent equal to the caller's value when one exists
\* (under any letter case) and to the default product/version text otherwise,
\* and connection: close set by the client if and only if its version is
\* HTTP/1.1; and the Client's stored header map is the same after the call as
\* before it.
C9_SendHeaders == []WireHeaders /\ StoredHeadersKept

\* an HTTP/1.0 call by a client configured with its own Host, User-Agent and
\* Connection
C9_Witness ==
    /\ Accepted
    /\ http_version = "Http1_0"
    /\ HeadersGet(last.config, Str(<<"h", "o", "s", "t">>)) = Some(Str(<<"x">>))
    /\ HeadersGet(last.config, Str(<<"u", "s", "e", "r", "-", "a", "g", "e", "n", "t">>)) = Some(Str(<<"x">>))
    /\ HeadersGet(last.config, Str(<<"c", "o", "n", "n", "e", "c", "t", "i", "o", "n">>)) = Some(Str(<<"x">>))
    /\ last.url.host = Some(ExampleHost)
    /\ HasLine(last.request_bytes, Str(<<"h", "o", "s", "t">>), ExampleHost)
    /\ headers = last.config

\* the last call got as far as writing its request
Exchanged == Accepted /\ last.io.connect = "ok" /\ last.io.tls = "ok"

\* C10, as claimed: once connected, the one I/O error that does not end the
\* call is an unexpected end of stream met while reading over TLS; any error
\* while writing (an unexpected end of stream over TLS too), any other error
\* while reading over TLS, and any I/O error on a plain stream make send return
\* the error, no response parsed.
C10_OnlyTlsReadEofTolerated ==
    Exchanged =>
        (last.returned = "parsed" <=>
            /\ last.io.write = "Ok"
            /\ \/ last.io.read = "Ok"
               \/ last.url.scheme = "https" /\ last.io.read = "UnexpectedEof")

\* what the code does: over TLS an unexpected end of stream is let through
\* wherever do_read_write met it, while writing as while reading
C10_TlsEofToleratedAnywhere ==
    Exchanged =>
        (last.returned = "parsed" <=>
            \/ last.io.write = "Ok" /\ last.io.read = "Ok"
            \/ /\ last.url.scheme = "https"
               /\ "UnexpectedEof" \in {last.io.write, last.io.read})

====
